---- MODULE Spec2Model ----
(***************************************************************************)
(* A model of tastypie_swagger/views.py: the registry accessor             *)
(* (TastypieApiMixin.tastypie_api), the JSON responder                     *)
(* (JSONView.render_to_response with LazyEncoder) and the three views      *)
(* (SwaggerView, ResourcesView, SchemaView).                               *)
(*                                                                         *)
(* Python strings are sequences of one-character strings, so that rsplit,  *)
(* strip, '/%s' % name and sorted() are computed and not assumed.  Python  *)
(* dicts are functions over a finite set of keys.  Python objects are      *)
(* records tagged by a field (kind for plain objects, t for the values     *)
(* that travel in a template context).                                     *)
(***************************************************************************)
EXTENDS Integers, Sequences, FiniteSets, TLC

VARIABLES
    registry,   \* the _registry dict of the tastypie Api instance: name -> resource
    classApi,   \* TastypieApiMixin._tastypie_api, the class attribute
    pc,         \* per view object: "new" (not created), "ready" (created), "done" (GET handled)
    cls,        \* per view object: its class
    kwargs,     \* per view object: self.kwargs, the URL keyword arguments
    inst,       \* per view object: the instance attribute _tastypie_api (or Unset)
    reads,      \* per view object: how often the tastypie_api property was read from outside a handler
    lastRead,   \* per view object: what the latest such read produced
    response,   \* per view object: what GET produced
    context,    \* JSON responder: the context dict handed to render_to_response (mutated in place)
    context0,   \* JSON responder: the context as it was when render_to_response was called
    rendered    \* JSON responder: what render_to_response produced

vars == <<registry, classApi, pc, cls, kwargs, inst, reads, lastRead, response,
          context, context0, rendered>>

viewVars == <<registry, classApi, pc, cls, kwargs, inst, reads, lastRead, response>>
jsonVars == <<context, context0, rendered>>

-----------------------------------------------------------------------------
(* Bounds *)

\* the largest number of keys of the registry
MaxRegistry == 2
\* the largest number of reads of the tastypie_api property on one view object
\* besides those its GET handler makes
MaxReads == 1
\* the deepest nesting of lists and dicts in a value of the responder's context
MaxDepth == 2

\* the request-handling objects (Django's as_view makes one per request)
Views == {"v1", "v2"}

-----------------------------------------------------------------------------
(* Python strings *)

\* ord() of the characters the model uses
Ord(c) ==
    CASE c = "." -> 46
      [] c = "/" -> 47
      [] c = "0" -> 48
      [] c = "1" -> 49
      [] c = "9" -> 57
      [] c = ":" -> 58
      [] c = "a" -> 97
      [] c = "b" -> 98
      [] c = "h" -> 104
      [] c = "m" -> 109
      [] c = "n" -> 110
      [] c = "o" -> 111
      [] c = "p" -> 112
      [] c = "r" -> 114
      [] c = "s" -> 115
      [] c = "x" -> 120
      [] c = "z" -> 122

\* str.__lt__: the first differing character decides, a proper prefix is smaller
RECURSIVE StrLess(_, _)
StrLess(a, b) ==
    IF a = <<>> THEN b # <<>>
    ELSE IF b = <<>> THEN FALSE
    ELSE IF Head(a) = Head(b) THEN StrLess(Tail(a), Tail(b))
    ELSE Ord(Head(a)) < Ord(Head(b))

\* the index of the last occurrence of character c in s, 0 when there is none
RECURSIVE RFind(_, _)
RFind(s, c) ==
    IF s = <<>> THEN 0
    ELSE IF s[Len(s)] = c THEN Len(s)
    ELSE RFind(SubSeq(s, 1, Len(s) - 1), c)

\* s.rsplit('.', 1): the list of the parts, two when s holds a dot, else one
RSplitDot(s) ==
    LET i == RFind(s, ".") IN
    IF i = 0 THEN <<s>>
    ELSE <<SubSeq(s, 1, i - 1), SubSeq(s, i + 1, Len(s))>>

\* s.strip('/')
RECURSIVE StripSlash(_)
StripSlash(s) ==
    IF s = <<>> THEN s
    ELSE IF Head(s) = "/" THEN StripSlash(Tail(s))
    ELSE IF s[Len(s)] = "/" THEN StripSlash(SubSeq(s, 1, Len(s) - 1))
    ELSE s

\* '/%s' % name
PathOf(name) == <<"/">> \o name

-----------------------------------------------------------------------------
(* Python dicts *)

EmptyDict == [x \in {} |-> x]

\* d.update(e)
DictUpdate(d, e) ==
    [x \in (DOMAIN d) \cup (DOMAIN e) |-> IF x \in DOMAIN e THEN e[x] ELSE d[x]]

\* del d[k]
DictDel(d, k) == [x \in (DOMAIN d) \ {k} |-> d[x]]

\* d.get(k, default)
DictGet(d, k, default) == IF k \in DOMAIN d THEN d[k] ELSE default

-----------------------------------------------------------------------------
(* The values that travel in kwargs and in a template context *)

Str(s) == [t |-> "str", s |-> s]
\* a Django Promise (a lazy translation string) whose resolved text is s
Lazy(s) == [t |-> "lazy", s |-> s]
PyNone == [t |-> "none"]
\* an object json cannot serialize, such as the view object itself
Obj(id) == [t |-> "obj", id |-> id]
List(items) == [t |-> "list", items |-> items]
Dict(d) == [t |-> "dict", d |-> d]

\* a dict key that is a str, and one that is a Promise
Key(k) == [kt |-> "str", k |-> k]
LazyKey(k) == [kt |-> "lazy", k |-> k]

\* bool() of such a value
TruthyValue(v) ==
    CASE v.t = "none" -> FALSE
      [] v.t = "str" -> v.s # <<>>
      [] v.t = "list" -> v.items # <<>>
      [] v.t = "dict" -> DOMAIN v.d # {}
      [] OTHER -> TRUE

-----------------------------------------------------------------------------
(* Python objects reachable through sys.modules *)

None == [kind |-> "None"]
\* the instance attribute _tastypie_api was never assigned
Unset == [kind |-> "Unset"]
\* the tastypie.api.Api instance; its _registry is the variable registry
ApiObj == [kind |-> "Api"]
\* a module attribute that is false in a condition (0, an empty container)
Zero == [kind |-> "Zero"]
\* a module attribute that is true in a condition and is no Api (it has no _registry)
Other == [kind |-> "Other"]

Truthy(obj) == obj.kind \in {"Api", "Other"}

\* sys.modules: the loaded modules and their attributes.  Package p and module
\* p.m are loaded; p.m defines a (the Api), z (a false value) and o (another object).
sys_modules ==
    (<<"p">> :> EmptyDict) @@
    (<<"p", ".", "m">> :> ((<<"a">> :> ApiObj) @@ (<<"z">> :> Zero) @@ (<<"o">> :> Other)))

\* getattr(module, attr, None)
GetAttr(module, attr) == DictGet(module, attr, None)

-----------------------------------------------------------------------------
(* TastypieApiMixin.tastypie_api *)

\* self._tastypie_api read: the instance's attribute, else the class's
SelfApi(i, c) == IF i # Unset THEN i ELSE c

\* self._tastypie_api = v, misplaced on the class
StoreApiOnClass(i, c, v) == [inst |-> i, cls |-> v]

\* self._tastypie_api = v: an assignment through self binds the instance's attribute
StoreApi(i, c, v) == [inst |-> v, cls |-> c]

\* the attribute assigned before it is tested: a failed read leaves None behind
RaisedAfterStore(i, c, exc) ==
    [inst |-> None, cls |-> c, kind |-> exc, obj |-> None, resolved |-> 1]

\* What a read of the property does: i and c are the instance and class attribute
\* before, kw is self.kwargs.  kind is "ok" (obj is returned) or the exception
\* raised; resolved counts the executions of the resolution branch.
Raised(i, c, exc) ==
    [inst |-> i, cls |-> c, kind |-> exc, obj |-> None, resolved |-> 1]

tastypie_api(i, c, kw) ==
    IF Truthy(SelfApi(i, c))
    THEN [inst |-> i, cls |-> c, kind |-> "ok", obj |-> SelfApi(i, c), resolved |-> 0]
    ELSE
      LET tastypie_api_module == DictGet(kw, Key("tastypie_api_module"), PyNone) IN
      IF ~TruthyValue(tastypie_api_module)
      THEN Raised(i, c, "ImproperlyConfigured")
      ELSE
        LET parts == RSplitDot(tastypie_api_module.s) IN
        IF Len(parts) # 2
        THEN Raised(i, c, "ValueError")     \* path, attr = <a list of one>
        ELSE
          LET path == parts[1]
              attr == parts[2]
          IN
          IF path \notin DOMAIN sys_modules
          THEN Raised(i, c, "ImproperlyConfigured")    \* KeyError caught
          ELSE
            LET api == GetAttr(sys_modules[path], attr) IN
            IF ~Truthy(api)
            THEN Raised(i, c, "ImproperlyConfigured")
            ELSE
              LET st == StoreApi(i, c, api) IN
              [inst |-> st.inst, cls |-> st.cls, kind |-> "ok",
               obj |-> SelfApi(st.inst, st.cls), resolved |-> 1]

-----------------------------------------------------------------------------
(* json.dumps(context, cls=LazyEncoder) *)

\* The document written, as a tree: string, null, array, object (a function over
\* its member names), or the mapper's output written as it is.
JString(s) == [j |-> "string", s |-> s]
JNull == [j |-> "null"]
JArray(items) == [j |-> "array", items |-> items]
JObject(members) == [j |-> "object", members |-> members]
JMapped(v) == [j |-> "mapped", what |-> v.what, of |-> v.of]
\* json.dumps raised TypeError: nothing is written
TypeError == [j |-> "TypeError"]

\* the exception of JSONEncoder.default, as a value
NotSerializable == [t |-> "raise"]

\* LazyEncoder.default(obj): called by the encoder for a value it has no rule for
LazyEncoder_default(obj) ==
    IF obj.t = "lazy" THEN Str(obj.s)     \* force_text(obj)
    ELSE NotSerializable                   \* JSONEncoder.default raises TypeError

\* The encoder proper.  A dict key must be a str: default() is never asked about
\* a key.  What default() returns is encoded in turn.
RECURSIVE Encode(_)
Encode(v) ==
    CASE v.t = "str" -> JString(v.s)
      [] v.t = "none" -> JNull
      [] v.t = "mapped" -> JMapped(v)
      [] v.t = "list" ->
            LET parts == [n \in 1..Len(v.items) |-> Encode(v.items[n])] IN
            IF \E n \in 1..Len(v.items) : parts[n] = TypeError THEN TypeError
            ELSE JArray(parts)
      [] v.t = "dict" ->
            IF \E k \in DOMAIN v.d : k.kt # "str" THEN TypeError
            ELSE
              LET parts == [k \in DOMAIN v.d |-> Encode(v.d[k])] IN
              IF \E k \in DOMAIN v.d : parts[k] = TypeError THEN TypeError
              ELSE JObject([name \in {k.k : k \in DOMAIN v.d} |-> parts[Key(name)]])
      [] v.t = "raise" -> TypeError
      [] OTHER -> Encode(LazyEncoder_default(v))

dumps(ctx) == Encode(Dict(ctx))

-----------------------------------------------------------------------------
(* JSONView.render_to_response *)

\* only 'params' is removed
StripOnlyParams(ctx) ==
    IF Key("params") \in DOMAIN ctx THEN DictDel(ctx, Key("params")) ELSE ctx

\* lines 80-84: the loop over ['params', 'view'], then 'view' once more
StripKeys(ctx) ==
    LET c1 == IF Key("params") \in DOMAIN ctx THEN DictDel(ctx, Key("params")) ELSE ctx
        c2 == IF Key("view") \in DOMAIN c1 THEN DictDel(c1, Key("view")) ELSE c1
        c3 == IF Key("view") \in DOMAIN c2 THEN DictDel(c2, Key("view")) ELSE c2
    IN  c3

\* the context as the call leaves it (the caller's dict is changed in place) and
\* the response: status 200 with the document, or the TypeError of json.dumps
render_to_response(ctx) ==
    LET stripped == StripKeys(ctx)
        doc == dumps(stripped)
    IN  [context |-> stripped,
         kind |-> IF doc = TypeError THEN "TypeError" ELSE "ok",
         content_type |-> IF doc = TypeError THEN "" ELSE "application/json",
         body |-> doc]

-----------------------------------------------------------------------------
(* What the views take from Django and from mapping.py *)

\* scheme and host of the request
Origin == <<"h", ":", "/", "/", "h">>

\* request.build_absolute_uri(location)
build_absolute_uri(location) == Origin \o location

\* reverse('<namespace>:resources') and reverse('<namespace>:schema')
ResourcesUrl == <<"/", "r", "/">>
SchemaUrl == <<"/", "s", "/">>

\* TemplateView.get_context_data(**kwargs) at the end of the super() chain, as
\* Django 1.5 and later have it: the keyword arguments, and the view under 'view'
\* unless they hold that key
BaseContext(view, kw) ==
    IF Key("view") \in DOMAIN kw THEN kw ELSE DictUpdate(kw, Key("view") :> Obj(view))

\* ResourceSwaggerMapping(resource).build_apis() and .build_models(): functions of
\* the resource alone, written to the response as they are
build_apis(resource) == [t |-> "mapped", what |-> "apis", of |-> resource]
build_models(resource) == [t |-> "mapped", what |-> "models", of |-> resource]

-----------------------------------------------------------------------------
(* Reads of the registry *)

\* the keys in the reverse of their order
RECURSIVE SortedDescending(_)
SortedDescending(S) ==
    IF S = {} THEN <<>>
    ELSE LET m == CHOOSE x \in S : \A y \in S \ {x} : StrLess(y, x)
         IN  <<m>> \o SortedDescending(S \ {m})

\* sorted(keys): ascending by str comparison, whatever order the dict yields them in
RECURSIVE sorted(_)
sorted(S) ==
    IF S = {} THEN <<>>
    ELSE LET m == CHOOSE x \in S : \A y \in S \ {x} : StrLess(x, y)
         IN  <<m>> \o sorted(S \ {m})

\* _registry.pop(resource_name, None) in the place of get
RegistryPop(reg, resource_name) ==
    IF resource_name.t = "str" /\ resource_name.s \in DOMAIN reg
    THEN [registry |-> [n \in (DOMAIN reg) \ {resource_name.s} |-> reg[n]],
          value |-> reg[resource_name.s]]
    ELSE [registry |-> reg, value |-> "None"]

\* _registry.get(resource_name): the resource or None, and the dict as the call
\* leaves it
RegistryGet(reg, resource_name) ==
    IF resource_name.t = "str" /\ resource_name.s \in DOMAIN reg
    THEN [registry |-> reg, value |-> reg[resource_name.s]]
    ELSE [registry |-> reg, value |-> "None"]

\* the test answers yes for every name
InRegistryAlways(reg, resource_name) == TRUE

\* resource_name in _registry
InRegistry(reg, resource_name) ==
    resource_name.t = "str" /\ resource_name.s \in DOMAIN reg

-----------------------------------------------------------------------------
(* get_context_data of the mixin and of the views *)

\* the versions are not set
NoVersions(view, kw) == BaseContext(view, kw)

\* SwaggerApiDataMixin.get_context_data
SwaggerApiDataMixin_get_context_data(view, kw) ==
    DictUpdate(BaseContext(view, kw),
               (Key("apiVersion") :> Str(<<"0", ".", "1">>)) @@
               (Key("swaggerVersion") :> Str(<<"1", ".", "1">>)))

\* What a get_context_data call leaves: the two attributes and the registry after
\* it, kind "ok" with the context or the exception raised, the number of
\* resolutions of the registry path, the steps taken in their order, and the
\* resources a mapper was made for.
Outcome(i, c, reg, kind, ctx, resolved, steps, mapper) ==
    [inst |-> i, cls |-> c, registry |-> reg, kind |-> kind, context |-> ctx,
     resolved |-> resolved, steps |-> steps, mapper |-> mapper]

\* SwaggerView.get_context_data
SwaggerView_get_context_data(view, i, c, kw, reg) ==
    Outcome(i, c, reg, "ok",
            DictUpdate(BaseContext(view, kw),
                       Key("discovery_url") :>
                           Str(StripSlash(build_absolute_uri(ResourcesUrl)))),
            0, <<"super">>, <<>>)

\* ResourcesView.get_context_data
ResourcesView_get_context_data(view, i, c, kw, reg) ==
    LET ctx == SwaggerApiDataMixin_get_context_data(view, kw)
        r == tastypie_api(i, c, kw)
    IN
    IF r.kind # "ok"
    THEN Outcome(r.inst, r.cls, reg, r.kind, EmptyDict, r.resolved,
                 <<"super", "registry">>, <<>>)
    ELSE IF r.obj.kind # "Api"
    THEN Outcome(r.inst, r.cls, reg, "AttributeError", EmptyDict, r.resolved,
                 <<"super", "registry">>, <<>>)
    ELSE
      LET names == sorted(DOMAIN reg)
          apis == [n \in 1..Len(names) |-> Dict(Key("path") :> Str(PathOf(names[n])))]
      IN
      Outcome(r.inst, r.cls, reg, "ok",
              DictUpdate(ctx,
                         (Key("basePath") :> Str(StripSlash(build_absolute_uri(SchemaUrl)))) @@
                         (Key("apis") :> List(apis))),
              r.resolved, <<"super", "registry", "keys">>, <<>>)

\* SchemaView.get_context_data
SchemaView_get_context_data(view, i, c, kw, reg) ==
    LET resource_name == DictGet(kw, Key("resource"), PyNone)
        r == tastypie_api(i, c, kw)                      \* line 136
    IN
    IF r.kind # "ok"
    THEN Outcome(r.inst, r.cls, reg, r.kind, EmptyDict, r.resolved, <<"registry">>, <<>>)
    ELSE IF r.obj.kind # "Api"
    THEN Outcome(r.inst, r.cls, reg, "AttributeError", EmptyDict, r.resolved,
                 <<"registry">>, <<>>)
    ELSE IF ~InRegistry(reg, resource_name)
    THEN Outcome(r.inst, r.cls, reg, "Http404", EmptyDict, r.resolved,
                 <<"registry", "member">>, <<>>)
    ELSE
      LET r2 == tastypie_api(r.inst, r.cls, kw)          \* line 140
      IN
      IF r2.kind # "ok" \/ r2.obj.kind # "Api"
      THEN Outcome(r2.inst, r2.cls, reg,
                   IF r2.kind # "ok" THEN r2.kind ELSE "AttributeError",
                   EmptyDict, r.resolved + r2.resolved, <<"registry", "member">>, <<>>)
      ELSE
        LET got == RegistryGet(reg, resource_name)
            resource == got.value
            ctx == SwaggerApiDataMixin_get_context_data(view, kw)
        IN
        Outcome(r2.inst, r2.cls, got.registry, "ok",
                DictUpdate(ctx,
                           (Key("basePath") :> Str(StripSlash(build_absolute_uri(<<"/">>)))) @@
                           (Key("apis") :> build_apis(resource)) @@
                           (Key("models") :> build_models(resource))),
                r.resolved + r2.resolved,
                <<"registry", "member", "mapper", "super">>, <<resource>>)

-----------------------------------------------------------------------------
(* The inputs *)

\* the resource names a registry may hold, and the resources
Names == {<<"b">>, <<"a">>, <<"a", "b">>}
Resources == {"R1", "R2"}

\* the registries: at most MaxRegistry names, each bound to a resource
Registries ==
    UNION {[K -> Resources] : K \in {K \in SUBSET Names : Cardinality(K) <= MaxRegistry}}

\* tastypie_api_module as urls.py may give it: the Api (p.m.a), a false attribute,
\* an attribute that is no Api, an attribute that does not exist, a module that
\* is not loaded, a path with no dot, the empty string
ModulePaths ==
    {<<"p", ".", "m", ".", "a">>, <<"p", ".", "m", ".", "z">>, <<"p", ".", "m", ".", "o">>,
     <<"p", ".", "m", ".", "n">>, <<"x", ".", "a">>, <<"a">>, <<>>}

\* the keyword arguments with and without tastypie_api_module
ModuleKwargs ==
    {EmptyDict} \cup {Key("tastypie_api_module") :> Str(m) : m \in ModulePaths}

\* the resource parameter of the schema route: not given, or a name
ResourceKwargs ==
    {EmptyDict} \cup {Key("resource") :> Str(n) : n \in {<<"a">>, <<"b">>}}

\* extra keyword arguments of urls.py that bear the names the views set
Overrides ==
    (Key("apiVersion") :> Str(<<"9">>)) @@ (Key("swaggerVersion") :> Str(<<"9">>)) @@
    (Key("basePath") :> Str(<<"x">>)) @@ (Key("apis") :> Str(<<"x">>)) @@
    (Key("models") :> Str(<<"x">>))

Classes == {"SwaggerView", "ResourcesView", "SchemaView"}

\* every input of one request
KwargsFor(k) ==
    IF k = "SchemaView"
    THEN {DictUpdate(DictUpdate(m, r), e) :
            m \in ModuleKwargs, r \in ResourceKwargs, e \in {EmptyDict, Overrides}}
    ELSE ModuleKwargs

\* the inputs of the requests that run side by side: the Api, no path, a module
\* that is not loaded, an attribute that is no Api; resource a or none
SharedModuleKwargs ==
    {EmptyDict} \cup
    {Key("tastypie_api_module") :> Str(m) :
        m \in {<<"p", ".", "m", ".", "a">>, <<"p", ".", "m", ".", "o">>, <<"x", ".", "a">>}}

SharedKwargsFor(k) ==
    CASE k = "SchemaView" ->
            {DictUpdate(m, r) : m \in SharedModuleKwargs,
                                r \in {EmptyDict, Key("resource") :> Str(<<"a">>)}}
      [] k = "ResourcesView" -> SharedModuleKwargs
      [] OTHER -> {Key("tastypie_api_module") :> Str(<<"p", ".", "m", ".", "a">>)}

-----------------------------------------------------------------------------
(* The requests *)

NoRead == [kind |-> "none", obj |-> None, resolved |-> 0]
NoResponse ==
    [kind |-> "none", content_type |-> "", body |-> JNull, context |-> EmptyDict,
     resolved |-> 0, steps |-> <<>>, mapper |-> <<>>]
NotRendered == [context |-> EmptyDict, kind |-> "none", content_type |-> "", body |-> JNull]

Init ==
    /\ registry \in Registries
    /\ classApi = None
    /\ pc = [o \in Views |-> "new"]
    /\ cls = [o \in Views |-> "none"]
    /\ kwargs = [o \in Views |-> EmptyDict]
    /\ inst = [o \in Views |-> Unset]
    /\ reads = [o \in Views |-> 0]
    /\ lastRead = [o \in Views |-> NoRead]
    /\ response = [o \in Views |-> NoResponse]
    /\ context = EmptyDict
    /\ context0 = EmptyDict
    /\ rendered = NotRendered

\* as_view's view function: a new object of the class, self.kwargs the URL's
Setup(o, k, kw) ==
    /\ pc[o] = "new"
    /\ pc' = [pc EXCEPT ![o] = "ready"]
    /\ cls' = [cls EXCEPT ![o] = k]
    /\ kwargs' = [kwargs EXCEPT ![o] = kw]
    /\ UNCHANGED <<registry, classApi, inst, reads, lastRead, response>>
    /\ UNCHANGED jsonVars

\* a read of view.tastypie_api
ReadApi(o) ==
    /\ pc[o] \in {"ready", "done"}
    /\ reads[o] < MaxReads
    /\ LET r == tastypie_api(inst[o], classApi, kwargs[o]) IN
         /\ inst' = [inst EXCEPT ![o] = r.inst]
         /\ classApi' = r.cls
         /\ lastRead' = [lastRead EXCEPT ![o] =
                            [kind |-> r.kind, obj |-> r.obj, resolved |-> r.resolved]]
    /\ reads' = [reads EXCEPT ![o] = @ + 1]
    /\ UNCHANGED <<registry, pc, cls, kwargs, response>>
    /\ UNCHANGED jsonVars

\* get_context_data of class k
get_context_data_of(k, view, i, c, kw, reg) ==
    CASE k = "SwaggerView" -> SwaggerView_get_context_data(view, i, c, kw, reg)
      [] k = "ResourcesView" -> ResourcesView_get_context_data(view, i, c, kw, reg)
      [] k = "SchemaView" -> SchemaView_get_context_data(view, i, c, kw, reg)

\* self.get_context_data(**kwargs) on view object o
get_context_data(o) ==
    get_context_data_of(cls[o], o, inst[o], classApi, kwargs[o], registry)

\* TemplateView.render_to_response of SwaggerView: the page with discovery_url
render_template(ctx) ==
    [context |-> ctx, kind |-> "ok", content_type |-> "text/html",
     body |-> [j |-> "html", discovery_url |-> ctx[Key("discovery_url")].s]]

\* render_to_response of the view's class, for the context get_context_data gave;
\* an exception of get_context_data ends the request before it
Respond(o, r) ==
    IF r.kind # "ok"
    THEN [context |-> r.context, kind |-> r.kind, content_type |-> "", body |-> JNull]
    ELSE IF cls[o] = "SwaggerView" THEN render_template(r.context)
    ELSE render_to_response(r.context)

\* the request as it ended
Finish(o, r, out) ==
    /\ inst' = [inst EXCEPT ![o] = r.inst]
    /\ classApi' = r.cls
    /\ registry' = r.registry
    /\ response' = [response EXCEPT ![o] =
           [kind |-> out.kind, content_type |-> out.content_type, body |-> out.body,
            context |-> out.context, resolved |-> r.resolved,
            steps |-> IF r.kind = "ok" THEN r.steps \o <<"render">> ELSE r.steps,
            mapper |-> r.mapper]]

\* TemplateView.get: get_context_data(**kwargs), then render_to_response(context)
Get(o) ==
    /\ pc[o] = "ready"
    /\ \E r \in {get_context_data(o)} : Finish(o, r, Respond(o, r))
    /\ pc' = [pc EXCEPT ![o] = "done"]
    /\ UNCHANGED <<cls, kwargs, reads, lastRead>>
    /\ UNCHANGED jsonVars

\* two view objects, their requests in any interleaving
Next ==
    \/ \E o \in Views, k \in Classes : \E kw \in SharedKwargsFor(k) : Setup(o, k, kw)
    \/ \E o \in Views : ReadApi(o)
    \/ \E o \in Views : Get(o)

Spec == Init /\ [][Next]_vars

\* one view object, every input
NextRequest ==
    \/ \E k \in Classes : \E kw \in KwargsFor(k) : Setup("v1", k, kw)
    \/ ReadApi("v1")
    \/ Get("v1")

SpecRequest == Init /\ [][NextRequest]_vars

-----------------------------------------------------------------------------
(* The JSON responder on its own *)

Leaves == {Str(<<"x">>), Lazy(<<"z">>), Obj("o")}

\* the values nested at most d deep: a list of at most one item, a dict of at
\* most one key, the key a str or a Promise
RECURSIVE Values(_)
Values(d) ==
    IF d = 0 THEN Leaves
    ELSE LET V == Values(d - 1) IN
         V \cup {List(<<>>), Dict(EmptyDict)}
           \cup {List(<<v>>) : v \in V}
           \cup {Dict(k :> v) : k \in {Key("view"), LazyKey("label")}, v \in V}

\* the contexts: 'params' and 'view' as Django's versions set them or a plain
\* value, 'data' any value, and a Promise as a key
Contexts ==
    {DictUpdate(DictUpdate(DictUpdate(a, b), c), d) :
        a \in {EmptyDict, Key("params") :> Dict(EmptyDict), Key("params") :> Obj("o")},
        b \in {EmptyDict, Key("view") :> Obj("view"), Key("view") :> Str(<<"x">>)},
        c \in {EmptyDict} \cup {Key("data") :> v : v \in Values(MaxDepth)},
        d \in {EmptyDict, LazyKey("label") :> Str(<<"x">>)}}

InitJSON ==
    /\ registry = EmptyDict
    /\ classApi = None
    /\ pc = [o \in Views |-> "new"]
    /\ cls = [o \in Views |-> "none"]
    /\ kwargs = [o \in Views |-> EmptyDict]
    /\ inst = [o \in Views |-> Unset]
    /\ reads = [o \in Views |-> 0]
    /\ lastRead = [o \in Views |-> NoRead]
    /\ response = [o \in Views |-> NoResponse]
    /\ context \in Contexts
    /\ context0 = context
    /\ rendered = NotRendered

\* render_to_response(context)
Render ==
    /\ rendered.kind = "none"
    /\ LET r == render_to_response(context) IN
         /\ context' = r.context
         /\ rendered' = r
    /\ UNCHANGED context0
    /\ UNCHANGED viewVars

NextJSON == Render

SpecJSON == InitJSON /\ [][NextJSON]_vars

-----------------------------------------------------------------------------
(* What the inputs are, told from the inputs alone *)

\* the one dotted path that names the Api instance
ApiPath == <<"p", ".", "m", ".", "a">>

\* kw configures the registry: tastypie_api_module is given and names the Api
ValidPath(kw) ==
    /\ Key("tastypie_api_module") \in DOMAIN kw
    /\ kw[Key("tastypie_api_module")] = Str(ApiPath)

\* the resource parameter of kw is a key of reg
NamesKey(kw, reg) ==
    /\ Key("resource") \in DOMAIN kw
    /\ kw[Key("resource")].t = "str"
    /\ kw[Key("resource")].s \in DOMAIN reg

Handled(o, k) == pc[o] = "done" /\ cls[o] = k

-----------------------------------------------------------------------------
(* The listing *)

\* the name an entry of apis stands for: its path less the leading slash
EntryName(e) == Tail(e.members["path"].s)

\* C1: when the Listing Endpoint resolves the registry, the request succeeds and
\* the apis list of the response holds exactly one entry {"path": "/<name>"} per
\* registry key and nothing else, in strictly ascending (lexicographic) order of
\* the names, so with no duplicate and none missing.
C1_ListingSorted ==
    \A o \in Views :
        (Handled(o, "ResourcesView") /\ ValidPath(kwargs[o])) =>
            /\ response[o].kind = "ok"
            /\ response[o].content_type = "application/json"
            /\ LET apis == response[o].body.members["apis"].items IN
                 /\ Len(apis) = Cardinality(DOMAIN registry)
                 /\ \A n \in DOMAIN registry :
                        \E idx \in 1..Len(apis) :
                            apis[idx] = JObject("path" :> JString(<<"/">> \o n))
                 /\ \A idx \in 1..Len(apis) :
                        /\ DOMAIN apis[idx].members = {"path"}
                        /\ EntryName(apis[idx]) \in DOMAIN registry
                 /\ \A a, b \in 1..Len(apis) :
                        a < b => StrLess(EntryName(apis[a]), EntryName(apis[b]))

\* a listing of a registry of at least two names was served
C1_Witness ==
    \E o \in Views :
        /\ Handled(o, "ResourcesView")
        /\ response[o].kind = "ok"
        /\ Cardinality(DOMAIN registry) >= 2
        /\ <<"b">> \in DOMAIN registry

-----------------------------------------------------------------------------
(* The declaration *)

DeclarationOf(resource) ==
    ("apiVersion" :> JString(<<"0", ".", "1">>)) @@
    ("swaggerVersion" :> JString(<<"1", ".", "1">>)) @@
    ("basePath" :> JString(Origin)) @@
    ("apis" :> [j |-> "mapped", what |-> "apis", of |-> resource]) @@
    ("models" :> [j |-> "mapped", what |-> "models", of |-> resource])

\* C6: a Declaration request for a key of the configured registry succeeds; its
\* context and its document carry apiVersion "0.1", swaggerVersion "1.1",
\* basePath the site root, and apis and models as the mapper made for exactly
\* the resource registered under the name builds them, whatever the URL keyword
\* arguments of the same names say.
C6_DeclarationContext ==
    \A o \in Views :
        (Handled(o, "SchemaView") /\ ValidPath(kwargs[o]) /\ NamesKey(kwargs[o], registry)) =>
            LET resource == registry[kwargs[o][Key("resource")].s]
                want == DeclarationOf(resource)
            IN
            /\ response[o].kind = "ok"
            /\ response[o].mapper = <<resource>>
            /\ \A name \in DOMAIN want :
                  /\ name \in DOMAIN response[o].body.members
                  /\ response[o].body.members[name] = want[name]
                  /\ Key(name) \in DOMAIN response[o].context
                  /\ Encode(response[o].context[Key(name)]) = want[name]

\* a declaration was served to a request whose URL keyword arguments name all
\* five keys, from a registry that binds another name to another resource
C6_Witness ==
    \E o \in Views :
        /\ Handled(o, "SchemaView")
        /\ response[o].kind = "ok"
        /\ Key("apiVersion") \in DOMAIN kwargs[o]
        /\ Key("models") \in DOMAIN kwargs[o]
        /\ \E n \in DOMAIN registry :
              registry[n] # registry[kwargs[o][Key("resource")].s]

-----------------------------------------------------------------------------
(* The accessor and the order of the declaration's steps *)

\* C3 as stated: a read of tastypie_api on a view whose tastypie_api_module is
\* missing, empty, without a dot, names a module that is not loaded, an attribute
\* that does not exist or an attribute that is no registry instance raises
\* ImproperlyConfigured: no other exception, and no result.
C3_AlwaysImproperlyConfigured ==
    \A o \in Views :
        (lastRead[o].kind # "none" /\ ~ValidPath(kwargs[o])) =>
            lastRead[o].kind = "ImproperlyConfigured"

IsPrefix(a, b) == Len(a) <= Len(b) /\ a = SubSeq(b, 1, Len(a))

\* the part of C10 about the order alone: the steps of a Declaration request are
\* a prefix of registry, member, mapper, super, render, and a mapper is made only
\* for a key of the registry
C10_OrderOfSteps ==
    \A o \in Views :
        Handled(o, "SchemaView") =>
            /\ IsPrefix(response[o].steps, <<"registry", "member", "mapper", "super", "render">>)
            /\ response[o].mapper # <<>> => NamesKey(kwargs[o], registry)
            /\ response[o].kind = "Http404" => ValidPath(kwargs[o])

\* C10 as stated: the registry is resolved, then the name is looked for, then the
\* mapper is made; so no mapper is made for a name that is no key, and a request
\* with an invalid registry path and an absent name fails with
\* ImproperlyConfigured, not with Http404.
C10_ConfigurationErrorFirst ==
    /\ C10_OrderOfSteps
    /\ \A o \in Views :
          (Handled(o, "SchemaView") /\ ~ValidPath(kwargs[o])
              /\ ~NamesKey(kwargs[o], registry)) =>
                 response[o].kind = "ImproperlyConfigured"

-----------------------------------------------------------------------------
(* What the requests share *)

\* C7: the class attribute _tastypie_api stays None; once a view object holds a
\* registry in its own attribute the attribute never changes, and every read on
\* that object returns it without resolving the path; a read on an object that
\* holds none resolves the path itself, whatever other objects hold.
C7_PerObjectCache ==
    /\ [](classApi = None)
    /\ [][\A o \in Views :
            /\ inst[o] # Unset => (Truthy(inst[o]) /\ inst'[o] = inst[o])
            /\ reads'[o] # reads[o] =>
                 IF inst[o] # Unset
                 THEN lastRead'[o] = [kind |-> "ok", obj |-> inst[o], resolved |-> 0]
                 ELSE /\ lastRead'[o].resolved = 1
                      /\ lastRead'[o].kind = "ok" =>
                            (inst'[o] = lastRead'[o].obj /\ Truthy(lastRead'[o].obj))
                      /\ lastRead'[o].obj = ApiObj => ValidPath(kwargs[o])
                      /\ lastRead'[o].kind # "ok" => inst'[o] = Unset
            /\ (pc[o] = "ready" /\ pc'[o] = "done" /\ cls[o] # "SwaggerView") =>
                 response'[o].resolved = IF inst[o] # Unset THEN 0 ELSE 1
         ]_vars

\* one object served a request from the registry it had cached at an earlier
\* read, while another object, reading for itself, failed to resolve its path
C7_Witness ==
    \E o1, o2 \in Views :
        /\ o1 # o2
        /\ inst[o1] = ApiObj
        /\ reads[o1] > 0
        /\ pc[o1] = "done"
        /\ response[o1].kind = "ok"
        /\ response[o1].resolved = 0
        /\ lastRead[o2].kind = "ImproperlyConfigured"
        /\ inst[o2] = Unset

\* C8: no step of any request changes the registry: its keys and the resource
\* bound to each stay what they were.
C8_RegistryReadOnly == [][registry' = registry]_vars

\* a declaration was served from a registry of two names or more, and another
\* request failed
C8_Witness ==
    \E o1, o2 \in Views :
        /\ Handled(o1, "SchemaView")
        /\ response[o1].kind = "ok"
        /\ Cardinality(DOMAIN registry) >= 2
        /\ pc[o2] = "done"
        /\ response[o2].kind \in {"Http404", "ImproperlyConfigured"}

\* what the request of o ends in on an object nothing has touched
FreshResponse(o) ==
    Respond(o, get_context_data_of(cls[o], o, Unset, None, kwargs[o], registry))

\* C9: a request that ended in ImproperlyConfigured resolved the path once and
\* left the object's _tastypie_api unset, and so did a failed read; nothing is
\* written to the class; and every request ends as it would on an untouched
\* object, whatever requests and reads, failed or not, came before it.
C9_FailuresLeaveNothing ==
    /\ classApi = None
    /\ \A o \in Views :
          /\ lastRead[o].kind \notin {"none", "ok"} => inst[o] = Unset
          /\ pc[o] = "done" =>
                /\ response[o].kind = "ImproperlyConfigured" =>
                      (inst[o] = Unset /\ response[o].resolved = 1)
                /\ response[o].kind = FreshResponse(o).kind
                /\ response[o].body = FreshResponse(o).body

\* a request failed with ImproperlyConfigured and a request on the other object
\* was served from the registry
C9_Witness ==
    \E o1, o2 \in Views :
        /\ o1 # o2
        /\ pc[o1] = "done"
        /\ response[o1].kind = "ImproperlyConfigured"
        /\ pc[o2] = "done"
        /\ cls[o2] # "SwaggerView"
        /\ response[o2].kind = "ok"

-----------------------------------------------------------------------------
(* The JSON responder *)

\* the context less the two keys the responder removes
Kept(ctx) == [k \in (DOMAIN ctx) \ {Key("params"), Key("view")} |-> ctx[k]]

\* json can write v: no object it has no rule for, and every dict key a str
RECURSIVE Serializable(_)
Serializable(v) ==
    CASE v.t = "obj" -> FALSE
      [] v.t = "list" -> \A n \in 1..Len(v.items) : Serializable(v.items[n])
      [] v.t = "dict" -> \A k \in DOMAIN v.d : k.kt = "str" /\ Serializable(v.d[k])
      [] OTHER -> TRUE

\* a Promise occurs in v: as a value, as an item of a list, as a key of a dict
RECURSIVE HasLazy(_)
HasLazy(v) ==
    CASE v.t = "lazy" -> TRUE
      [] v.t = "list" -> \E n \in 1..Len(v.items) : HasLazy(v.items[n])
      [] v.t = "dict" -> \E k \in DOMAIN v.d : k.kt = "lazy" \/ HasLazy(v.d[k])
      [] OTHER -> FALSE

\* an object json has no rule for occurs in v
RECURSIVE HasObj(_)
HasObj(v) ==
    CASE v.t = "obj" -> TRUE
      [] v.t = "list" -> \E n \in 1..Len(v.items) : HasObj(v.items[n])
      [] v.t = "dict" -> \E k \in DOMAIN v.d : HasObj(v.d[k])
      [] OTHER -> FALSE

\* the document v stands for once every Promise in it, key or value, is replaced
\* by its text
RECURSIVE Resolved(_)
Resolved(v) ==
    CASE v.t \in {"str", "lazy"} -> [j |-> "string", s |-> v.s]
      [] v.t = "none" -> [j |-> "null"]
      [] v.t = "list" ->
            [j |-> "array", items |-> [n \in 1..Len(v.items) |-> Resolved(v.items[n])]]
      [] v.t = "dict" ->
            [j |-> "object",
             members |-> [name \in {k.k : k \in DOMAIN v.d} |->
                             Resolved(v.d[CHOOSE k \in DOMAIN v.d : k.k = name])]]
      [] OTHER -> [j |-> "opaque"]

\* C4: render_to_response leaves neither 'params' nor 'view' in the context and
\* writes neither as a top-level member; when what is left can be serialized it
\* answers 200 application/json with exactly the other top-level keys, each with
\* its own value (a Promise as its text); otherwise nothing is written.
C4_NeverEmitsInternalKeys ==
    rendered.kind # "none" =>
        /\ context = Kept(context0)
        /\ Serializable(Dict(Kept(context0))) => rendered.kind = "ok"
        /\ rendered.kind = "ok" =>
              /\ rendered.content_type = "application/json"
              /\ rendered.body.j = "object"
              /\ "params" \notin DOMAIN rendered.body.members
              /\ "view" \notin DOMAIN rendered.body.members
              /\ DOMAIN rendered.body.members = {k.k : k \in DOMAIN Kept(context0)}
              /\ \A k \in DOMAIN Kept(context0) :
                    rendered.body.members[k.k] = Resolved(context0[k])
        /\ rendered.kind # "ok" => rendered.body = TypeError

\* a context holding 'params', the view under 'view' and a nested value holding a
\* Promise was written
C4_Witness ==
    /\ rendered.kind = "ok"
    /\ Key("params") \in DOMAIN context0
    /\ Key("view") \in DOMAIN context0
    /\ context0[Key("view")].t = "obj"
    /\ Key("data") \in DOMAIN context0
    /\ context0[Key("data")].t \in {"list", "dict"}
    /\ HasLazy(context0[Key("data")])

\* C5 as stated: a context that holds a Promise anywhere (a dict value, a list
\* item, a dict key, at any depth) and nothing json has no rule for is written
\* with every Promise as its text, and never fails.
C5_LazyAnywhere ==
    (rendered.kind # "none" /\ HasLazy(Dict(Kept(context0)))
        /\ ~HasObj(Dict(Kept(context0)))) =>
            /\ rendered.kind = "ok"
            /\ rendered.body = Resolved(Dict(Kept(context0)))

\* the part of C5 the encoder keeps: a Promise that is a value or a list item, at
\* any depth, is written as its text
C5_LazyValues ==
    (rendered.kind # "none" /\ Serializable(Dict(Kept(context0)))) =>
        /\ rendered.kind = "ok"
        /\ rendered.body = Resolved(Dict(Kept(context0)))

====
